---- MODULE Spec2Model ----
(***************************************************************************)
(* Model of hooks/check_file_length.py: the pre-commit hook that counts    *)
(* the lines of each file named on the command line and reports the files  *)
(* that reach the warning or the error threshold.                          *)
(*                                                                         *)
(* Strings (paths, glob patterns, regular expressions, file contents) are  *)
(* sequences of one-character strings.                                     *)
(***************************************************************************)
EXTENDS Integers, Sequences, FiniteSets, TLC

VARIABLES
    warn_lines,     \* args.warn_lines
    max_lines,      \* args.max_lines
    skip,           \* args.skip: the glob patterns, in command-line order
    filenames,      \* args.filenames
    fs,             \* what open() finds for filenames[k]: bytes or an OSError
    skip_patterns,  \* the compiled patterns
    i,              \* position of the for loop in args.filenames (1-based)
    rel_filename,   \* loop local
    skip_file,      \* loop local
    line_count,     \* loop local (Unbound until the first successful count)
    retval,
    has_warnings,
    warnings,
    errors,
    stdout,         \* the lines printed so far
    opened,         \* the filenames passed to open() so far
    exit_code,      \* what main returned (Unbound until it returns)
    pc

vars == <<warn_lines, max_lines, skip, filenames, fs, skip_patterns, i,
          rel_filename, skip_file, line_count, retval, has_warnings,
          warnings, errors, stdout, opened, exit_code, pc>>

args == <<warn_lines, max_lines, skip, filenames, fs>>

\* ------------------------------------------------------------- bounds
MaxFiles == 2          \* length of args.filenames
MaxThreshold == 2      \* --warn-lines and --max-lines range over 0..MaxThreshold
MaxContentLen == 3     \* bytes of a file, in the line-counting specification
MaxPatternLen == 2     \* characters of a --skip pattern, in the matching specification
MaxPathLen == 2        \* characters of a relative path, in the matching specification

Unbound == -1

\* ------------------------------------------------------------- strings
RECURSIVE Replace(_, _, _)
\* str.replace(old, new) for a one-character old
Replace(s, old, new) ==
    IF s = <<>> THEN <<>>
    ELSE (IF Head(s) = old THEN new ELSE <<Head(s)>>) \o Replace(Tail(s), old, new)

\* All strings over alphabet of length at most n
StringsUpTo(alphabet, n) == UNION {[1..k -> alphabet] : k \in 0..n}

\* ------------------------------------------------------------- os.path.relpath
\* The current working directory, as path components: /w
Cwd == << <<"w">> >>

RECURSIVE SplitSep(_, _)
\* path.split('/'): the components of s, cur being the one under construction
SplitSep(s, cur) ==
    IF s = <<>> THEN <<cur>>
    ELSE IF Head(s) = "/" THEN <<cur>> \o SplitSep(Tail(s), <<>>)
    ELSE SplitSep(Tail(s), Append(cur, Head(s)))

RECURSIVE NormComps(_, _)
\* posixpath.normpath on the components of an absolute path: empty and '.'
\* components are dropped, '..' removes the component before it
NormComps(comps, acc) ==
    IF comps = <<>> THEN acc
    ELSE LET c == Head(comps) IN
         IF c = <<>> \/ c = <<".">> THEN NormComps(Tail(comps), acc)
         ELSE IF c = <<".", ".">>
              THEN NormComps(Tail(comps),
                             IF acc = <<>> THEN acc ELSE SubSeq(acc, 1, Len(acc) - 1))
              ELSE NormComps(Tail(comps), Append(acc, c))

\* posixpath.abspath, as components
AbsComps(path) ==
    IF path # <<>> /\ Head(path) = "/"
    THEN NormComps(SplitSep(path, <<>>), <<>>)
    ELSE NormComps(Cwd \o SplitSep(path, <<>>), <<>>)

RECURSIVE CommonLen(_, _)
CommonLen(a, b) ==
    IF a = <<>> \/ b = <<>> \/ Head(a) # Head(b) THEN 0
    ELSE 1 + CommonLen(Tail(a), Tail(b))

RECURSIVE JoinSep(_)
JoinSep(comps) ==
    IF Len(comps) = 1 THEN comps[1]
    ELSE comps[1] \o <<"/">> \o JoinSep(Tail(comps))

\* os.path.relpath raises ValueError("no path specified") for an empty path
RelpathRaises(path) == path = <<>>

\* os.path.relpath(path), start being the current directory
Relpath(path) ==
    LET path_list == AbsComps(path)
        n == CommonLen(Cwd, path_list)
        rel_list == [k \in 1..(Len(Cwd) - n) |-> <<".", ".">>]
                    \o SubSeq(path_list, n + 1, Len(path_list))
    IN IF rel_list = <<>> THEN <<".">> ELSE JoinSep(rel_list)

\* ------------------------------------------------------------- skip patterns
\* Lines 31-33: the glob pattern rewritten as a regular expression
GlobToRegex(pattern) ==
    LET r1 == Replace(pattern, ".", <<"\\", ".">>)
        r2 == Replace(r1, "*", <<".", "*">>)
    IN Replace(r2, "?", <<".">>)

RECURSIVE ReTokens(_)
\* The regular expression's items: an escaped character is a literal, '.*'
\* is a repetition of any character, '.' is any one character, '|' separates
\* alternatives, any other character of the model's alphabet is a literal
ReTokens(r) ==
    IF r = <<>> THEN <<>>
    ELSE IF r[1] = "\\" /\ Len(r) >= 2
         THEN <<[kind |-> "lit", ch |-> r[2]]>> \o ReTokens(SubSeq(r, 3, Len(r)))
    ELSE IF r[1] = "." /\ Len(r) >= 2 /\ r[2] = "*"
         THEN <<[kind |-> "star", ch |-> "."]>> \o ReTokens(SubSeq(r, 3, Len(r)))
    ELSE IF r[1] = "."
         THEN <<[kind |-> "any", ch |-> "."]>> \o ReTokens(Tail(r))
    ELSE IF r[1] = "|"
         THEN <<[kind |-> "alt", ch |-> "|"]>> \o ReTokens(Tail(r))
    ELSE <<[kind |-> "lit", ch |-> r[1]]>> \o ReTokens(Tail(r))

RECURSIVE ReBranches(_, _)
\* The alternatives of the expression, each a sequence of items
ReBranches(toks, cur) ==
    IF toks = <<>> THEN <<cur>>
    ELSE IF Head(toks).kind = "alt" THEN <<cur>> \o ReBranches(Tail(toks), <<>>)
    ELSE ReBranches(Tail(toks), Append(cur, Head(toks)))

\* re.compile(regex_pattern)
ReCompile(r) == ReBranches(ReTokens(r), <<>>)

RECURSIVE ReMatchHere(_, _)
\* Whether the items match a prefix of s
ReMatchHere(toks, s) ==
    IF toks = <<>> THEN TRUE
    ELSE LET t == Head(toks) IN
         IF t.kind = "star"
         THEN \E n \in 0..Len(s) : ReMatchHere(Tail(toks), SubSeq(s, n + 1, Len(s)))
         ELSE IF t.kind = "any"
         THEN s # <<>> /\ ReMatchHere(Tail(toks), Tail(s))
         ELSE s # <<>> /\ Head(s) = t.ch /\ ReMatchHere(Tail(toks), Tail(s))

\* pattern.search(s): some alternative matches starting at some position
ReSearch(compiled, s) ==
    \E b \in 1..Len(compiled) : \E start \in 0..Len(s) :
        ReMatchHere(compiled[b], SubSeq(s, start + 1, Len(s)))

\* Lines 29-34: the compiled form of every --skip pattern
CompileAll(patterns) ==
    [k \in 1..Len(patterns) |-> ReCompile(GlobToRegex(patterns[k]))]

\* Mutant of SkipMatch: only the first pattern is tried
SkipMatchFirstOnly(compiled_patterns, rel) ==
    compiled_patterns # <<>> /\ ReSearch(compiled_patterns[1], rel)

\* Lines 41-45: whether some compiled pattern is found in the relative path
SkipMatch(compiled_patterns, rel) ==
    \E k \in 1..Len(compiled_patterns) : ReSearch(compiled_patterns[k], rel)

\* ------------------------------------------------------------- line counting
RECURSIVE AfterLine(_)
\* What is left of the bytes after one readline(): a line ends with its b'\n'
AfterLine(bytes) ==
    IF bytes = <<>> THEN <<>>
    ELSE IF Head(bytes) = "\n" THEN Tail(bytes)
    ELSE AfterLine(Tail(bytes))

\* Mutant of CountLines: the newline bytes alone are counted
CountNewlines(bytes) ==
    Cardinality({k \in 1..Len(bytes) : bytes[k] = "\n"})

RECURSIVE CountLines(_)
\* sum(1 for _ in f) over a file opened 'rb'
CountLines(bytes) ==
    IF bytes = <<>> THEN 0 ELSE 1 + CountLines(AfterLine(bytes))

\* ------------------------------------------------------------- messages
Line(kind, path, n, limit, detail) ==
    [kind |-> kind, path |-> path, lines |-> n, limit |-> limit,
     detail |-> detail, bullet |-> FALSE]

\* Line 55
ErrorMsg(rel, n, limit) == Line("ERROR", rel, n, limit, "")
\* Line 60
WarningMsg(rel, n, limit) == Line("WARNING", rel, n, limit, "")
\* Line 65
FailedMsg(rel, e) == Line("Failed to check", rel, 0, 0, e)
\* Lines 74 and 79: f"- {msg}"
Bullet(msg) == [msg EXCEPT !.bullet = TRUE]
BlankLine == Line("", <<>>, 0, 0, "")
WarningsHeader == Line("Warnings summary:", <<>>, 0, 0, "")
ErrorsHeader == Line("Errors summary:", <<>>, 0, 0, "")

Bullets(msgs) == [k \in 1..Len(msgs) |-> Bullet(msgs[k])]

\* Mutant of Reaches: a strict comparison
ReachesStrict(n, limit) == n > limit

\* Lines 54 and 59: the comparison of a line count with a threshold
Reaches(n, limit) == n >= limit

\* ------------------------------------------------------------- inputs
FileOk(bytes) == [ok |-> TRUE, bytes |-> bytes, err |-> ""]
FileErr(e) == [ok |-> FALSE, bytes |-> <<>>, err |-> e]

\* The command lines of the main specification
PathArgs == { <<>>, <<"/", "a">>, <<"a", ".", "b">> }
SkipArgs == { <<>>, << <<"*", ".", "b">> >>, << <<"b">>, <<"?", "a">> >> }
FileStates == { FileOk(<<>>), FileOk(<<"x", "\n">>), FileOk(<<"x", "\n", "x">>),
                FileErr("ENOENT") }

\* The state after lines 20-25
Start ==
    /\ skip_patterns = <<>>
    /\ i = 0
    /\ rel_filename = <<>>
    /\ skip_file = FALSE
    /\ line_count = Unbound
    /\ retval = 0
    /\ has_warnings = FALSE
    /\ warnings = <<>>
    /\ errors = <<>>
    /\ stdout = <<>>
    /\ opened = <<>>
    /\ exit_code = Unbound
    /\ pc = "compile"

\* One file of every content up to MaxContentLen bytes
Bytes == {"x", "\n", "\r"}
InitCount ==
    /\ warn_lines = 1
    /\ max_lines = 2
    /\ skip \in { <<>>, << <<"a">> >> }
    /\ filenames \in { << <<>> >>, << <<"a">> >> }
    /\ fs \in [1..1 -> {FileOk(b) : b \in StringsUpTo(Bytes, MaxContentLen)}
                        \cup {FileErr("EACCES")}]
    /\ Start

\* One pattern and one path, of every spelling up to the bounds
GlobAlphabet == {"a", ".", "*", "?", "|"}
PathAlphabet == {"a", "b", ".", "|"}
InitMatch ==
    /\ warn_lines = 1
    /\ max_lines = 2
    /\ \E g \in StringsUpTo(GlobAlphabet, MaxPatternLen) : skip = <<g>>
    /\ \E p \in StringsUpTo(PathAlphabet, MaxPathLen) : filenames = <<p>>
    /\ fs \in [1..1 -> FileStates]
    /\ Start

Init ==
    /\ warn_lines \in 0..MaxThreshold
    /\ max_lines \in 0..MaxThreshold
    /\ skip \in SkipArgs
    /\ \E n \in 0..MaxFiles :
          /\ filenames \in [1..n -> PathArgs]
          /\ fs \in [1..n -> FileStates]
    /\ Start

\* ------------------------------------------------------------- main
\* Lines 27-34
CompileSkipPatterns ==
    /\ pc = "compile"
    /\ skip_patterns' = CompileAll(skip)
    /\ i' = 1
    /\ pc' = "loop"
    /\ UNCHANGED <<args, rel_filename, skip_file, line_count, retval,
                   has_warnings, warnings, errors, stdout, opened, exit_code>>

InLoop == pc = "loop" /\ i <= Len(filenames)

\* Line 38 raising: nothing in main catches the ValueError
RelpathFails ==
    /\ InLoop
    /\ RelpathRaises(filenames[i])
    /\ pc' = "raised"
    /\ UNCHANGED <<args, skip_patterns, i, rel_filename, skip_file, line_count,
                   retval, has_warnings, warnings, errors, stdout, opened,
                   exit_code>>

\* Lines 38-48: the path matches a skip pattern
SkipFile ==
    /\ InLoop
    /\ ~RelpathRaises(filenames[i])
    /\ SkipMatch(skip_patterns, Relpath(filenames[i]))
    /\ rel_filename' = Relpath(filenames[i])
    /\ skip_file' = TRUE
    /\ i' = i + 1
    /\ UNCHANGED <<args, skip_patterns, line_count, retval, has_warnings,
                   warnings, errors, stdout, opened, exit_code, pc>>

\* The path is not skipped and open() is reached
Opens ==
    /\ InLoop
    /\ ~RelpathRaises(filenames[i])
    /\ ~SkipMatch(skip_patterns, Relpath(filenames[i]))
    /\ rel_filename' = Relpath(filenames[i])
    /\ skip_file' = FALSE
    /\ opened' = Append(opened, filenames[i])
    /\ i' = i + 1

\* Mutant of CheckFails: the failure is reported but retval is left alone
CheckFailsKeepsRetval ==
    /\ Opens
    /\ ~fs[i].ok
    /\ LET msg == FailedMsg(Relpath(filenames[i]), fs[i].err) IN
          /\ stdout' = Append(stdout, msg)
          /\ errors' = Append(errors, msg)
    /\ UNCHANGED <<args, skip_patterns, line_count, retval, has_warnings,
                   warnings, exit_code, pc>>

\* Mutant of CheckFails: the failure is reported and ends the scan
CheckFailsEndsScan ==
    /\ Opens
    /\ ~fs[i].ok
    /\ LET msg == FailedMsg(Relpath(filenames[i]), fs[i].err) IN
          /\ stdout' = Append(stdout, msg)
          /\ errors' = Append(errors, msg)
    /\ retval' = 1
    /\ pc' = "errors_summary"
    /\ UNCHANGED <<args, skip_patterns, line_count, has_warnings, warnings,
                   exit_code>>

\* Lines 64-68: open() or the read raised IOError/OSError
CheckFails ==
    /\ Opens
    /\ ~fs[i].ok
    /\ LET msg == FailedMsg(Relpath(filenames[i]), fs[i].err) IN
          /\ stdout' = Append(stdout, msg)
          /\ errors' = Append(errors, msg)
    /\ retval' = 1
    /\ UNCHANGED <<args, skip_patterns, line_count, has_warnings, warnings,
                   exit_code, pc>>

\* Lines 54-58
CheckError ==
    /\ Opens
    /\ fs[i].ok
    /\ line_count' = CountLines(fs[i].bytes)
    /\ Reaches(line_count', max_lines)
    /\ LET msg == ErrorMsg(Relpath(filenames[i]), line_count', max_lines) IN
          /\ stdout' = Append(stdout, msg)
          /\ errors' = Append(errors, msg)
    /\ retval' = 1
    /\ UNCHANGED <<args, skip_patterns, has_warnings, warnings, exit_code, pc>>

\* Mutant of CheckWarning: has_warnings is not set
CheckWarningNoFlag ==
    /\ Opens
    /\ fs[i].ok
    /\ line_count' = CountLines(fs[i].bytes)
    /\ ~Reaches(line_count', max_lines)
    /\ Reaches(line_count', warn_lines)
    /\ LET msg == WarningMsg(Relpath(filenames[i]), line_count', warn_lines) IN
          /\ stdout' = Append(stdout, msg)
          /\ warnings' = Append(warnings, msg)
    /\ UNCHANGED <<args, skip_patterns, retval, has_warnings, errors,
                   exit_code, pc>>

\* Lines 59-63
CheckWarning ==
    /\ Opens
    /\ fs[i].ok
    /\ line_count' = CountLines(fs[i].bytes)
    /\ ~Reaches(line_count', max_lines)
    /\ Reaches(line_count', warn_lines)
    /\ LET msg == WarningMsg(Relpath(filenames[i]), line_count', warn_lines) IN
          /\ stdout' = Append(stdout, msg)
          /\ warnings' = Append(warnings, msg)
    /\ has_warnings' = TRUE
    /\ UNCHANGED <<args, skip_patterns, retval, errors, exit_code, pc>>

\* Lines 51-63 with neither threshold reached
CheckOk ==
    /\ Opens
    /\ fs[i].ok
    /\ line_count' = CountLines(fs[i].bytes)
    /\ ~Reaches(line_count', max_lines)
    /\ ~Reaches(line_count', warn_lines)
    /\ UNCHANGED <<args, skip_patterns, retval, has_warnings, warnings, errors,
                   stdout, exit_code, pc>>

\* Lines 71-74, once the loop is over
WarningsSummary ==
    /\ pc = "loop"
    /\ i > Len(filenames)
    /\ stdout' = IF warnings # <<>>
                 THEN stdout \o <<BlankLine, WarningsHeader>> \o Bullets(warnings)
                 ELSE stdout
    /\ pc' = "errors_summary"
    /\ UNCHANGED <<args, skip_patterns, i, rel_filename, skip_file, line_count,
                   retval, has_warnings, warnings, errors, opened, exit_code>>

\* Mutant of ErrorsSummary: the block lists the warnings
ErrorsSummaryListsWarnings ==
    /\ pc = "errors_summary"
    /\ stdout' = IF errors # <<>>
                 THEN stdout \o <<BlankLine, ErrorsHeader>> \o Bullets(warnings)
                 ELSE stdout
    /\ pc' = "return"
    /\ UNCHANGED <<args, skip_patterns, i, rel_filename, skip_file, line_count,
                   retval, has_warnings, warnings, errors, opened, exit_code>>

\* Lines 76-79
ErrorsSummary ==
    /\ pc = "errors_summary"
    /\ stdout' = IF errors # <<>>
                 THEN stdout \o <<BlankLine, ErrorsHeader>> \o Bullets(errors)
                 ELSE stdout
    /\ pc' = "return"
    /\ UNCHANGED <<args, skip_patterns, i, rel_filename, skip_file, line_count,
                   retval, has_warnings, warnings, errors, opened, exit_code>>

\* Line 81
Return ==
    /\ pc = "return"
    /\ exit_code' = retval
    /\ pc' = "done"
    /\ UNCHANGED <<args, skip_patterns, i, rel_filename, skip_file, line_count,
                   retval, has_warnings, warnings, errors, stdout, opened>>

Next ==
    \/ CompileSkipPatterns
    \/ RelpathFails
    \/ SkipFile
    \/ CheckFails
    \/ CheckError
    \/ CheckWarning
    \/ CheckOk
    \/ WarningsSummary
    \/ ErrorsSummary
    \/ Return

Spec == Init /\ [][Next]_vars

SpecCount == InitCount /\ [][Next]_vars

SpecMatch == InitMatch /\ [][Next]_vars


\* ------------------------------------------------------------- properties
\* What the command line and the files say about path k, read off the inputs
Rel(k) == Relpath(filenames[k])
Skipped(k) ==
    \E j \in 1..Len(skip) : ReSearch(ReCompile(GlobToRegex(skip[j])), Rel(k))
Readable(k) == fs[k].ok
NewlineBytes(bytes) == Cardinality({k \in 1..Len(bytes) : bytes[k] = "\n"})
UnterminatedTail(bytes) == bytes # <<>> /\ bytes[Len(bytes)] # "\n"
Lines(k) == NewlineBytes(fs[k].bytes) + (IF UnterminatedTail(fs[k].bytes) THEN 1 ELSE 0)

\* The messages path k is to print by itself
PerFile(k) ==
    IF Skipped(k) THEN <<>>
    ELSE IF ~Readable(k) THEN <<FailedMsg(Rel(k), fs[k].err)>>
    ELSE IF Lines(k) >= max_lines THEN <<ErrorMsg(Rel(k), Lines(k), max_lines)>>
    ELSE IF Lines(k) >= warn_lines THEN <<WarningMsg(Rel(k), Lines(k), warn_lines)>>
    ELSE <<>>

RECURSIVE Scan(_)
\* The messages of paths 1..k, in input order
Scan(k) == IF k = 0 THEN <<>> ELSE Scan(k - 1) \o PerFile(k)

IsWarning(m) == m.kind = "WARNING"
IsError(m) == m.kind \in {"ERROR", "Failed to check"}
SummaryBlock(header, msgs) ==
    IF msgs = <<>> THEN <<>> ELSE <<BlankLine, header>> \o Bullets(msgs)

\* The loop is about to process a path that is not skipped
AtChecked == InLoop /\ ~RelpathRaises(filenames[i]) /\ ~Skipped(i)

\* C1: when main returns, it returns 1 exactly when some non-skipped path
\* failed to open/read or has a line count >= max_lines, and 0 otherwise
\* (an empty list and a run with warnings only included).
C1_ExitCode ==
    pc = "done" =>
        /\ exit_code \in {0, 1}
        /\ exit_code = 1 <=>
              \E k \in 1..Len(filenames) :
                  ~Skipped(k) /\ (~Readable(k) \/ Lines(k) >= max_lines)

C1_Witness ==
    /\ pc = "done"
    /\ exit_code = 0
    /\ warnings # <<>>
    /\ \E k \in 1..Len(filenames) : Skipped(k) /\ ~Readable(k)

\* C2: a readable path that is not skipped prints one ERROR and no WARNING
\* when its count is >= max_lines (whatever warn_lines is), else one WARNING
\* and no ERROR when its count is >= warn_lines, leaving retval alone, else
\* nothing.
C2_ThresholdPriority ==
    [][(AtChecked /\ Readable(i)) =>
        LET n == Lines(i) IN
        IF n >= max_lines
        THEN /\ stdout' = Append(stdout, ErrorMsg(Rel(i), n, max_lines))
             /\ errors' = Append(errors, ErrorMsg(Rel(i), n, max_lines))
             /\ warnings' = warnings
             /\ retval' = 1
        ELSE IF n >= warn_lines
        THEN /\ stdout' = Append(stdout, WarningMsg(Rel(i), n, warn_lines))
             /\ warnings' = Append(warnings, WarningMsg(Rel(i), n, warn_lines))
             /\ errors' = errors
             /\ retval' = retval
        ELSE UNCHANGED <<stdout, warnings, errors, retval>>]_vars

C2_Witness ==
    /\ pc = "done"
    /\ Len(warnings) = 1
    /\ Len(stdout) = 4
    /\ exit_code = 0
    /\ warnings[1].lines >= warn_lines
    /\ warnings[1].lines < max_lines

\* C3: a path whose relative path matches some skip pattern is passed over:
\* the step leaves stdout, warnings, errors, retval, has_warnings, line_count
\* and the opened files as they were, whatever the file is, and no printed
\* line and no open() ever names such a path.
C3_SkipFrame ==
    /\ [][(InLoop /\ ~RelpathRaises(filenames[i]) /\ Skipped(i)) =>
            /\ UNCHANGED <<stdout, warnings, errors, retval, has_warnings,
                           line_count, opened, pc>>
            /\ i' = i + 1]_vars
    /\ [](\A k \in 1..Len(filenames) :
            (~RelpathRaises(filenames[k]) /\ Skipped(k)) =>
                /\ \A l \in 1..Len(stdout) :
                      stdout[l].kind \in {"ERROR", "WARNING", "Failed to check"}
                          => stdout[l].path # Rel(k)
                /\ \A o \in 1..Len(opened) : opened[o] # filenames[k])

C3_Witness ==
    /\ pc = "done"
    /\ exit_code = 0
    /\ stdout = <<>>
    /\ Len(filenames) = 2
    /\ Len(skip) = 2
    /\ \A k \in 1..2 : ~ReSearch(skip_patterns[1], Rel(k))
    /\ ~Readable(1)
    /\ Readable(2) /\ Lines(2) >= max_lines

\* C4: an I/O failure on a path that is not skipped prints one 'Failed to
\* check' line, appends it to errors, sets retval to 1, applies no threshold
\* and goes on with the next path; the messages printed during the scan are
\* those each path prints by itself, whatever failed before it.
C4_IoFailure ==
    /\ [][(AtChecked /\ ~Readable(i)) =>
            /\ stdout' = Append(stdout, FailedMsg(Rel(i), fs[i].err))
            /\ errors' = Append(errors, FailedMsg(Rel(i), fs[i].err))
            /\ retval' = 1
            /\ UNCHANGED <<warnings, has_warnings, line_count>>
            /\ i' = i + 1
            /\ pc' = "loop"]_vars
    /\ [](pc = "loop" => stdout = Scan(i - 1))

C4_Witness ==
    /\ pc = "done"
    /\ Len(filenames) = 2
    /\ ~Skipped(1) /\ ~Readable(1)
    /\ Len(errors) = 1
    /\ Len(warnings) = 1
    /\ warnings[1].path = Rel(2)

\* C5 (as amended): the line count is the number of newline bytes, plus one
\* when the content is not empty and does not end with a newline.
C5_LineCount ==
    (pc = "loop" /\ i = 2 /\ opened # <<>> /\ Readable(1)) =>
        line_count = NewlineBytes(fs[1].bytes)
                     + (IF UnterminatedTail(fs[1].bytes) THEN 1 ELSE 0)

C5_Witness ==
    /\ pc = "loop" /\ i = 2 /\ opened # <<>>
    /\ fs[1] = FileOk(<<"x", "\n", "x">>)
    /\ line_count = 2

\* C5 (as claimed): the line count is the number of newline bytes.
C5_NewlineBytesOnly ==
    (pc = "loop" /\ i = 2 /\ opened # <<>> /\ Readable(1)) =>
        line_count = NewlineBytes(fs[1].bytes)

\* C6 (as claimed): when os.path.relpath fails for a path, the run falls
\* back to the path as given and goes on with it and the later paths.
C6_RelpathFallback ==
    [][(InLoop /\ RelpathRaises(filenames[i])) =>
        /\ pc' = "loop"
        /\ i' = i + 1
        /\ rel_filename' = filenames[i]]_vars

\* C7: once the scan is over, the output is the per-file messages, then the
\* warnings block if and only if there was a warning, then the errors block
\* if and only if there was an error; each block is a blank line, its
\* header, and one '- <message>' per message of its kind in scan order.
C7_Summaries ==
    pc \in {"return", "done"} =>
        LET scan == Scan(Len(filenames)) IN
        stdout = scan
                 \o SummaryBlock(WarningsHeader, SelectSeq(scan, IsWarning))
                 \o SummaryBlock(ErrorsHeader, SelectSeq(scan, IsError))

C7_Witness ==
    /\ pc = "done"
    /\ Len(warnings) = 1
    /\ Len(errors) = 1
    /\ Len(stdout) = 8

\* The glob rule of the specification: '*' is any run of characters, '?' is
\* any one character, every other character is itself
RECURSIVE GlobFull(_, _)
GlobFull(g, s) ==
    IF g = <<>> THEN s = <<>>
    ELSE IF Head(g) = "*"
         THEN \E n \in 0..Len(s) : GlobFull(Tail(g), SubSeq(s, n + 1, Len(s)))
    ELSE IF Head(g) = "?"
         THEN s # <<>> /\ GlobFull(Tail(g), Tail(s))
    ELSE s # <<>> /\ Head(s) = Head(g) /\ GlobFull(Tail(g), Tail(s))

GlobFound(g, s) ==
    \E a \in 1..(Len(s) + 1) : \E b \in (a - 1)..Len(s) : GlobFull(g, SubSeq(s, a, b))

\* C8 (as claimed): a path is skipped exactly when some contiguous part of
\* its relative path matches the glob pattern.
C8_GlobRule ==
    (pc = "loop" /\ i = 2) => (skip_file <=> GlobFound(skip[1], rel_filename))

\* C9 (as claimed): the run always reaches its end, the messages printed
\* during the scan are those of the paths in input order, at most one per
\* path, no summary line precedes them, and warnings and errors only grow.
C9_SequentialToEnd ==
    /\ pc # "raised"
    /\ pc = "loop" =>
          /\ stdout = Scan(i - 1)
          /\ warnings = SelectSeq(stdout, IsWarning)
          /\ errors = SelectSeq(stdout, IsError)
    /\ \A k \in 1..Len(filenames) : Len(PerFile(k)) <= 1

\* C10: retval is 1 exactly when errors is not empty, has_warnings is true
\* exactly when warnings is not empty, retval never goes back to 0, and the
\* errors block is printed exactly when main returns 1.
C10_FlagsFollowLists ==
    /\ [](/\ retval \in {0, 1}
          /\ retval = 1 <=> errors # <<>>
          /\ has_warnings <=> warnings # <<>>
          /\ pc = "done" =>
                (exit_code = 1 <=> \E l \in 1..Len(stdout) : stdout[l] = ErrorsHeader))
    /\ [][retval = 1 => retval' = 1]_vars

C10_Witness ==
    /\ pc = "done"
    /\ exit_code = 1
    /\ has_warnings
    /\ Len(errors) = 1

====
